---- MODULE Spec2Model ----
(***************************************************************************)
(* Model of the Zoo -> Toompark lateness estimator                         *)
(* (src/scripts/data_extraction.py, src/scripts/time_calculations.py,      *)
(* src/main.py, src/data_extraction.py).                                   *)
(*                                                                         *)
(* Text read from the CSV tables is modelled by what the code does with    *)
(* it.  A numeric token is [num |-> TRUE, n |-> k], a token int() rejects  *)
(* is [num |-> FALSE, n |-> 0].  A GTFS clock string is the sequence of    *)
(* its ':'-separated tokens.  A CSV row is a record; a column the table    *)
(* lacks is a field the record lacks.  A function that can raise returns   *)
(* [exc |-> <exception name or "none">, val |-> <value>].                  *)
(***************************************************************************)
EXTENDS Integers, Sequences, FiniteSets, TLC

VARIABLES
    pc,                      \* position of the run
    stop_times,              \* SpecMatch: the stop_times.txt table handed to the matcher
    window,                  \* SpecMatch: <<start_min, end_min>> handed to the matcher
    variant,                 \* SpecMatch: which copy of the matcher runs
    results,                 \* SpecMatch: what find_zoo_toompark_trips returned
    data_root,               \* the data root: folder name -> the entry's label
    day,                     \* how many entries of the sorted listing the loop has passed
    all_durations,           \* the flattened corpus
    trips_durations_by_day,  \* the per-snapshot breakdown: folder name -> samples
    failed_days,             \* the folders reported as "Failed processing day"
    exception,               \* the exception that left the run, or "none"
    config,                  \* walk_to_bus, walk_from_bus, meeting_time_sec
    leave_times,             \* the candidate home-departure times
    probabilities,           \* what compute_lateness_probability returned
    seconds,                 \* SpecClock: the seconds since midnight handed to sec_to_hhmm
    hhmm                     \* SpecClock: what sec_to_hhmm returned

vars == <<pc, stop_times, window, variant, results, data_root, day, all_durations,
          trips_durations_by_day, failed_days, exception, config, leave_times,
          probabilities, seconds, hhmm>>

clockVars == <<seconds, hhmm>>
matchVars == <<stop_times, window, variant, results>>
collectVars == <<data_root, day, trips_durations_by_day, failed_days, exception>>

-----------------------------------------------------------------------------
(* Bounds of the model *)

\* rows of a stop-time table, and the stop_sequence values they carry
MaxRows == 3
MaxSeq == 3
\* entries of the data root
MaxDays == 3
\* samples of a corpus, and candidate times of one call
MaxCorpus == 3
MaxLeave == 2
\* the hours sec_to_hhmm is given
MaxHour == 47

-----------------------------------------------------------------------------
(* Text tokens and outcomes *)

Num(k) == [num |-> TRUE, n |-> k]
NotNum == [num |-> FALSE, n |-> 0]
Clock(h, m, s) == <<Num(h), Num(m), Num(s)>>

Ok(v) == [exc |-> "none", val |-> v]
Raise(e) == [exc |-> e, val |-> <<>>]

-----------------------------------------------------------------------------
(* Time codec *)

\* hours, minutes, seconds = map(int, time_str.split(':'))
ParsesAsClock(time_str) ==
    /\ Len(time_str) = 3
    /\ \A k \in 1..3 : time_str[k].num

change_gtfs_time_to_seconds(time_str) ==
    IF ParsesAsClock(time_str)
    THEN Ok(time_str[1].n * 3600 + time_str[2].n * 60 + time_str[3].n)
    ELSE Raise("ValueError")

\* src/data_extraction.py: minutes since midnight, seconds dropped
change_gtfs_time(time_str) ==
    IF ParsesAsClock(time_str)
    THEN Ok(time_str[1].n * 60 + time_str[2].n + (time_str[3].n \div 60))
    ELSE Raise("ValueError")

\* scripts/time_calculations.py: second precision
is_in_time_window(departure_time_str, start_min, end_min) ==
    LET time_sec == change_gtfs_time_to_seconds(departure_time_str)
    IN  IF time_sec.exc # "none" THEN time_sec
        ELSE Ok(start_min * 60 <= time_sec.val /\ time_sec.val <= end_min * 60)

\* src/data_extraction.py: minute precision
is_in_time_window_min(departure_time_str, start_min, end_min) ==
    LET departure_time == change_gtfs_time(departure_time_str)
    IN  IF departure_time.exc # "none" THEN departure_time
        ELSE Ok(start_min <= departure_time.val /\ departure_time.val <= end_min)

\* the characters of the decimal digits
Digit == <<"0", "1", "2", "3", "4", "5", "6", "7", "8", "9">>

\* str(n) for n >= 0
RECURSIVE Decimal(_)
Decimal(n) == IF n < 10 THEN <<Digit[n + 1]>> ELSE Decimal(n \div 10) \o <<Digit[(n % 10) + 1]>>

\* the format without the fill
Pad2_NoFill(n) == Decimal(n)

\* f"{n:02}": at least two characters, filled with zeros on the left
Pad2(n) == IF Len(Decimal(n)) < 2 THEN <<"0">> \o Decimal(n) ELSE Decimal(n)

sec_to_hhmm(secs) ==
    LET hours == secs \div 3600
        minutes == (secs % 3600) \div 60
    IN  Pad2(hours) \o <<":">> \o Pad2(minutes)

\* the defaults of the two is_in_time_window definitions
DefaultWindow(v) == IF v = "scripts" THEN <<450, 545>> ELSE <<480, 545>>

-----------------------------------------------------------------------------
(* Table sources *)

File(rows) == [exists |-> TRUE, rows |-> rows]
Missing == [exists |-> FALSE, rows |-> <<>>]

\* x in list
In(x, list) == \E k \in DOMAIN list : list[k] = x

RECURSIVE Concat(_)
Concat(lists) ==
    IF lists = <<>> THEN <<>> ELSE Head(lists) \o Concat(Tail(lists))

-----------------------------------------------------------------------------
(* Trip Matcher: find_zoo_toompark_trips *)

StopTimeFields == {"trip_id", "stop_id", "arrival_time", "departure_time", "stop_sequence"}

\* one pass of the reading loop: the row's entry in trips[trip_id], or the exception
ReadStopTimeRow(row) ==
    IF ~(StopTimeFields \subseteq DOMAIN row) THEN Raise("KeyError")
    ELSE IF ~row.stop_sequence.num THEN Raise("ValueError")
    ELSE Ok([stop_id |-> row.stop_id,
             arrival_time |-> row.arrival_time,
             departure_time |-> row.departure_time,
             stop_sequence |-> row.stop_sequence.n])

\* the keys of the trips dictionary, in insertion order
RECURSIVE TripKeys(_, _)
TripKeys(rows, seen) ==
    IF rows = <<>> THEN <<>>
    ELSE IF In(Head(rows).trip_id, seen) THEN TripKeys(Tail(rows), seen)
    ELSE <<Head(rows).trip_id>> \o TripKeys(Tail(rows), seen \o <<Head(rows).trip_id>>)

\* trips[trip_id]: the trip's stops in the order the rows were read
RECURSIVE StopsOfTrip(_, _)
StopsOfTrip(rows, trip_id) ==
    IF rows = <<>> THEN <<>>
    ELSE IF Head(rows).trip_id = trip_id
         THEN <<ReadStopTimeRow(Head(rows)).val>> \o StopsOfTrip(Tail(rows), trip_id)
         ELSE StopsOfTrip(Tail(rows), trip_id)

\* the exception of the first row the reading loop cannot take, or "none"
RECURSIVE ReadingFailure(_)
ReadingFailure(rows) ==
    IF rows = <<>> THEN "none"
    ELSE IF ReadStopTimeRow(Head(rows)).exc # "none" THEN ReadStopTimeRow(Head(rows)).exc
    ELSE ReadingFailure(Tail(rows))

\* round(time_diff, 2), kept in hundredths of a minute; 5d/3 is never a tie
RoundedMinutes(diff_sec) == (10 * diff_sec + 3) \div 6

InWindow(v, departure_time_str) ==
    IF v = "scripts"
    THEN is_in_time_window(departure_time_str, DefaultWindow(v)[1], DefaultWindow(v)[2])
    ELSE is_in_time_window_min(departure_time_str, DefaultWindow(v)[1], DefaultWindow(v)[2])

TravelTime(v, first_zoo, first_toompark) ==
    IF v = "scripts"
    THEN LET zoo_sec == change_gtfs_time_to_seconds(first_zoo.departure_time)
             toompark_sec == change_gtfs_time_to_seconds(first_toompark.arrival_time)
         IN  IF toompark_sec.exc # "none" THEN toompark_sec
             ELSE Ok(RoundedMinutes(toompark_sec.val - zoo_sec.val))
    ELSE LET zoo_min == change_gtfs_time(first_zoo.departure_time)
             toompark_min == change_gtfs_time(first_toompark.arrival_time)
         IN  IF toompark_min.exc # "none" THEN toompark_min
             ELSE Ok(100 * (toompark_min.val - zoo_min.val))

\* the direction test left out
SubsequentToompark_Any(toompark_stops, first_zoo) == toompark_stops

\* the toompark stops after the chosen zoo stop
SubsequentToompark(toompark_stops, first_zoo) ==
    SelectSeq(toompark_stops, LAMBDA s : s.stop_sequence > first_zoo.stop_sequence)

\* one pass of the analysing loop: the samples the trip adds (none or one)
AnalyzeTrip(v, trip_id, stops, zoo_stop_ids, toompark_stop_ids) ==
    LET zoo_stops == SelectSeq(stops, LAMBDA s : In(s.stop_id, zoo_stop_ids))
        toompark_stops == SelectSeq(stops, LAMBDA s : In(s.stop_id, toompark_stop_ids))
    IN  IF zoo_stops = <<>> \/ toompark_stops = <<>> THEN Ok(<<>>)
        ELSE LET first_zoo == zoo_stops[1]
                 subsequent_toompark == SubsequentToompark(toompark_stops, first_zoo)
             IN  IF subsequent_toompark = <<>> THEN Ok(<<>>)
                 ELSE LET in_window == InWindow(v, first_zoo.departure_time)
                          first_toompark == subsequent_toompark[1]
                          time_diff == TravelTime(v, first_zoo, first_toompark)
                      IN  IF in_window.exc # "none" THEN in_window
                          ELSE IF ~in_window.val THEN Ok(<<>>)
                          ELSE IF time_diff.exc # "none" THEN time_diff
                          ELSE Ok(<<[trip_id |-> trip_id,
                                     zoo_stop_id |-> first_zoo.stop_id,
                                     zoo_departure |-> first_zoo.departure_time,
                                     toompark_stop_id |-> first_toompark.stop_id,
                                     toompark_arrival |-> first_toompark.arrival_time,
                                     time_diff_minutes |-> time_diff.val,
                                     intermediate_stops |->
                                         first_toompark.stop_sequence
                                             - first_zoo.stop_sequence - 1]>>)

\* the analysing loop over trips.items()
RECURSIVE AnalyzeTrips(_, _, _, _, _)
AnalyzeTrips(v, keys, rows, zoo_stop_ids, toompark_stop_ids) ==
    IF keys = <<>> THEN Ok(<<>>)
    ELSE LET one == AnalyzeTrip(v, Head(keys), StopsOfTrip(rows, Head(keys)),
                                zoo_stop_ids, toompark_stop_ids)
             rest == AnalyzeTrips(v, Tail(keys), rows, zoo_stop_ids, toompark_stop_ids)
         IN  IF one.exc # "none" THEN one
             ELSE IF rest.exc # "none" THEN rest
             ELSE Ok(one.val \o rest.val)

\* start_min and end_min are accepted and never read
find_zoo_toompark_trips(v, stop_times_file, zoo_stop_ids, toompark_stop_ids, start_min, end_min) ==
    IF ~stop_times_file.exists THEN Raise("FileNotFoundError")
    ELSE IF ReadingFailure(stop_times_file.rows) # "none"
         THEN Raise(ReadingFailure(stop_times_file.rows))
    ELSE AnalyzeTrips(v, TripKeys(stop_times_file.rows, <<>>), stop_times_file.rows,
                      zoo_stop_ids, toompark_stop_ids)

-----------------------------------------------------------------------------
(* Schedule Loader: filter_trip_ids, extract_stop_ids *)

TargetLine == "Väike-Õismäe - Äigrumäe"

\* open() of a missing trips.txt raises; a row is tested on trip_long_name first
RECURSIVE MatchingTripIds(_)
MatchingTripIds(rows) ==
    IF rows = <<>> THEN Ok(<<>>)
    ELSE LET row == Head(rows)
             rest == MatchingTripIds(Tail(rows))
         IN  IF "trip_long_name" \notin DOMAIN row THEN Raise("KeyError")
             ELSE IF row.trip_long_name = TargetLine /\ "trip_id" \notin DOMAIN row
                  THEN Raise("KeyError")
             ELSE IF rest.exc # "none" THEN rest
             ELSE IF row.trip_long_name = TargetLine
                  THEN Ok(<<row.trip_id>> \o rest.val)
                  ELSE rest

filter_trip_ids(trips_file) ==
    IF ~trips_file.exists THEN Raise("FileNotFoundError")
    ELSE MatchingTripIds(trips_file.rows)

\* the stop ids of the rows named `name`, or the KeyError of the first row that
\* cannot be tested
RECURSIVE StopIdsNamed(_, _)
StopIdsNamed(rows, name) ==
    IF rows = <<>> THEN Ok(<<>>)
    ELSE LET row == Head(rows)
             rest == StopIdsNamed(Tail(rows), name)
         IN  IF "stop_name" \notin DOMAIN row THEN Raise("KeyError")
             ELSE IF row.stop_name \in {"Zoo", "Toompark"} /\ "stop_id" \notin DOMAIN row
                  THEN Raise("KeyError")
             ELSE IF rest.exc # "none" THEN rest
             ELSE IF row.stop_name = name THEN Ok(<<row.stop_id>> \o rest.val)
                  ELSE rest

\* a missing stops.txt is caught inside: printed, and two empty lists returned
extract_stop_ids(stops_file) ==
    IF ~stops_file.exists THEN Ok(<<<<>>, <<>>>>)
    ELSE IF StopIdsNamed(stops_file.rows, "Zoo").exc # "none"
         THEN StopIdsNamed(stops_file.rows, "Zoo")
    ELSE Ok(<<StopIdsNamed(stops_file.rows, "Zoo").val,
              StopIdsNamed(stops_file.rows, "Toompark").val>>)

-----------------------------------------------------------------------------
(* Snapshot Aggregator: collect_all_travel_times *)

\* sorted(os.listdir(data_root)): the folder names in ascending order
RECURSIVE SortedNames(_)
SortedNames(names) ==
    IF names = {} THEN <<>>
    ELSE LET least == CHOOSE n \in names : \A m \in names : n <= m
         IN  <<least>> \o SortedNames(names \ {least})

\* the line filter left out
FilterTrips_AnyLine(trips, trips_ids) == trips

\* filtered_trips = [t for t in trips if t['trip_id'] in trips_ids]
FilterTrips(trips, trips_ids) == SelectSeq(trips, LAMBDA t : In(t.trip_id, trips_ids))

\* the body of the try block for one day folder: filtered_trips, or the exception
DayTrips(entry) ==
    LET trips_ids == filter_trip_ids(entry.trips)
        stop_ids == extract_stop_ids(entry.stops)
        trips == find_zoo_toompark_trips("scripts", entry.stop_times,
                                         stop_ids.val[1], stop_ids.val[2], 480, 545)
    IN  IF trips_ids.exc # "none" THEN trips_ids
        ELSE IF stop_ids.exc # "none" THEN stop_ids
        ELSE IF trips.exc # "none" THEN trips
        ELSE Ok(FilterTrips(trips.val, trips_ids.val))

\* all_durations = filtered_trips
Extended_Overwritten(durations, filtered_trips) == filtered_trips

\* all_durations.extend(filtered_trips)
Extended(durations, filtered_trips) == durations \o filtered_trips

\* no except clause
Caught_Nothing(exc) == FALSE

\* except FileNotFoundError
Caught(exc) == exc = "FileNotFoundError"

-----------------------------------------------------------------------------
(* Lateness Estimator: compute_lateness_probability *)

\* module-level settings of main.py
MainConfig == [walk_to_bus |-> 300, walk_from_bus |-> 240,
               meeting_time_sec |-> 9 * 3600 + 5 * 60]

RECURSIVE Gcd(_, _)
Gcd(a, b) == IF b = 0 THEN a ELSE Gcd(b, a % b)

\* the float 1.0
One == [num |-> 1, den |-> 1]

\* the share of the trips that are on time
Quotient_OnTime(late_count, n) ==
    IF n = 0 THEN Raise("ZeroDivisionError")
    ELSE Ok([num |-> (n - late_count) \div Gcd(n - late_count, n),
             den |-> n \div Gcd(n - late_count, n)])

\* the float late_count / n: equal quotients are equal floats, so the quotient
\* is kept in lowest terms; n = 0 is Python's ZeroDivisionError
Quotient(late_count, n) ==
    IF n = 0 THEN Raise("ZeroDivisionError")
    ELSE Ok([num |-> late_count \div Gcd(late_count, n), den |-> n \div Gcd(late_count, n)])

\* the list comprehension: the corpus' samples the traveller can still board,
\* converted to seconds (the condition is evaluated before the element)
RECURSIVE AvailableTrips(_, _)
AvailableTrips(trips, arrive_at_stop) ==
    IF trips = <<>> THEN Ok(<<>>)
    ELSE LET t == Head(trips)
             dep == change_gtfs_time_to_seconds(t.zoo_departure)
             arr == change_gtfs_time_to_seconds(t.toompark_arrival)
             rest == AvailableTrips(Tail(trips), arrive_at_stop)
         IN  IF dep.exc # "none" THEN dep
             ELSE IF dep.val >= arrive_at_stop /\ arr.exc # "none" THEN arr
             ELSE IF rest.exc # "none" THEN rest
             ELSE IF dep.val >= arrive_at_stop
                  THEN Ok(<<[zoo_departure |-> dep.val, arrival_time |-> arr.val]>> \o rest.val)
                  ELSE rest

\* an arrival at the deadline counted as late
RECURSIVE LateCount_AtDeadline(_, _, _)
LateCount_AtDeadline(available_trips, meeting_time_sec, walk_from_bus) ==
    IF available_trips = <<>> THEN 0
    ELSE (IF Head(available_trips).arrival_time + walk_from_bus >= meeting_time_sec
          THEN 1 ELSE 0)
         + LateCount_AtDeadline(Tail(available_trips), meeting_time_sec, walk_from_bus)

\* the counting loop
RECURSIVE LateCount(_, _, _)
LateCount(available_trips, meeting_time_sec, walk_from_bus) ==
    IF available_trips = <<>> THEN 0
    ELSE (IF Head(available_trips).arrival_time + walk_from_bus > meeting_time_sec
          THEN 1 ELSE 0)
         + LateCount(Tail(available_trips), meeting_time_sec, walk_from_bus)

\* the empty list not set apart
LatenessAt_NoGuard(trips, leave_home_at, meeting_time_sec, walk_to_bus, walk_from_bus) ==
    LET arrive_at_stop == leave_home_at + walk_to_bus
        available_trips == AvailableTrips(trips, arrive_at_stop)
    IN  IF available_trips.exc # "none" THEN available_trips
        ELSE Quotient(LateCount(available_trips.val, meeting_time_sec, walk_from_bus),
                      Len(available_trips.val))

\* one pass of the loop over leave_times: the probability appended for leave_home_at
LatenessAt(trips, leave_home_at, meeting_time_sec, walk_to_bus, walk_from_bus) ==
    LET arrive_at_stop == leave_home_at + walk_to_bus
        available_trips == AvailableTrips(trips, arrive_at_stop)
    IN  IF available_trips.exc # "none" THEN available_trips
        ELSE IF available_trips.val = <<>> THEN Ok(One)
        ELSE Quotient(LateCount(available_trips.val, meeting_time_sec, walk_from_bus),
                      Len(available_trips.val))

\* the corpus' samples that depart at or after arrive_at_stop
StillAvailable(trips, arrive_at_stop) ==
    SelectSeq(trips, LAMBDA t : change_gtfs_time_to_seconds(t.zoo_departure).val
                                    >= arrive_at_stop)

\* trips overwritten by the filtered list, so that it narrows from pass to pass
RECURSIVE compute_lateness_probability_Narrowing(_, _, _, _, _)
compute_lateness_probability_Narrowing(trips, times, meeting_time_sec, walk_to_bus, walk_from_bus) ==
    IF times = <<>> THEN Ok(<<>>)
    ELSE LET p_late == LatenessAt(trips, Head(times), meeting_time_sec,
                                  walk_to_bus, walk_from_bus)
             rest == compute_lateness_probability_Narrowing(
                         StillAvailable(trips, Head(times) + walk_to_bus), Tail(times),
                         meeting_time_sec, walk_to_bus, walk_from_bus)
         IN  IF p_late.exc # "none" THEN p_late
             ELSE IF rest.exc # "none" THEN rest
             ELSE Ok(<<p_late.val>> \o rest.val)

RECURSIVE compute_lateness_probability(_, _, _, _, _)
compute_lateness_probability(trips, times, meeting_time_sec, walk_to_bus, walk_from_bus) ==
    IF times = <<>> THEN Ok(<<>>)
    ELSE LET p_late == LatenessAt(trips, Head(times), meeting_time_sec,
                                  walk_to_bus, walk_from_bus)
             rest == compute_lateness_probability(trips, Tail(times), meeting_time_sec,
                                                  walk_to_bus, walk_from_bus)
         IN  IF p_late.exc # "none" THEN p_late
             ELSE IF rest.exc # "none" THEN rest
             ELSE Ok(<<p_late.val>> \o rest.val)

-----------------------------------------------------------------------------
(* SpecMatch: find_zoo_toompark_trips applied to bounded stop-time tables *)

ZooIds == <<"z1">>
ToomparkIds == <<"p1">>
Variants == {"scripts", "root"}

\* origin departures: inside 450..545 only, inside both defaults, past 545 by seconds
ZooClocks == {Clock(7, 30, 0), Clock(8, 10, 0), Clock(9, 5, 30)}

\* the windows a caller hands over: the signature's default and a narrower one
Windows == {<<480, 545>>, <<450, 500>>}

StopTimeRow(trip_id, stop_id, clock, seq) ==
    [trip_id |-> trip_id, stop_id |-> stop_id, arrival_time |-> clock,
     departure_time |-> clock, stop_sequence |-> seq]

StopTimeRows ==
    {StopTimeRow("t1", "z1", c, Num(q)) : c \in ZooClocks, q \in 1..MaxSeq}
    \cup {StopTimeRow("t1", "p1", Clock(8, 23, 0), Num(q)) : q \in 1..MaxSeq}
    \cup {StopTimeRow("t1", "x", Clock(8, 15, 0), Num(q)) : q \in 1..MaxSeq}
    \cup {StopTimeRow("t2", "z1", Clock(8, 10, 0), Num(1)),
          StopTimeRow("t2", "p1", Clock(8, 23, 0), Num(2)),
          StopTimeRow("t1", "x", Clock(8, 15, 0), NotNum),
          StopTimeRow("t1", "z1", <<Num(8), Num(10)>>, Num(1))}

Tables(rows, n) == UNION {[1..k -> rows] : k \in 0..n}

InitMatch ==
    /\ pc = "ready"
    /\ stop_times \in {File(t) : t \in Tables(StopTimeRows, MaxRows)}
    /\ window = <<0, 0>>
    /\ variant = "none"
    /\ results = Ok(<<>>)
    /\ data_root = <<>>
    /\ day = 0
    /\ all_durations = <<>>
    /\ trips_durations_by_day = <<>>
    /\ failed_days = <<>>
    /\ exception = "none"
    /\ config = MainConfig
    /\ leave_times = <<>>
    /\ probabilities = Ok(<<>>)
    /\ seconds = 0
    /\ hhmm = <<>>

Match ==
    /\ pc = "ready"
    /\ \E v \in Variants, w \in Windows :
        /\ variant' = v
        /\ window' = w
        /\ results' = find_zoo_toompark_trips(v, stop_times, ZooIds, ToomparkIds, w[1], w[2])
    /\ pc' = "matched"
    /\ UNCHANGED <<clockVars, stop_times, collectVars, all_durations, config, leave_times, probabilities>>

NextMatch == Match

SpecMatch == InitMatch /\ [][NextMatch]_vars

\* seconds since midnight of a clock string that parses
SecondsOf(clock) == clock[1].n * 3600 + clock[2].n * 60 + clock[3].n

Matched == pc = "matched" /\ results.exc = "none"

\* C1: no sample the matcher emits has an origin departure, at second precision,
\* before window_start or after window_end of the window it was called with.
C1_WindowFilter ==
    Matched =>
        \A k \in DOMAIN results.val :
            /\ window[1] * 60 <= SecondsOf(results.val[k].zoo_departure)
            /\ SecondsOf(results.val[k].zoo_departure) <= window[2] * 60

\* C2: every emitted sample comes from an origin row and a destination row of its
\* trip with the destination's stop_sequence strictly the greater, so that
\* intermediate_stops is never negative, whatever the order of the rows.
C2_Direction ==
    Matched =>
        \A k \in DOMAIN results.val :
            LET m == results.val[k]
                rows == stop_times.rows
            IN  /\ m.intermediate_stops >= 0
                /\ \E a, b \in DOMAIN rows :
                    /\ rows[a].trip_id = m.trip_id /\ rows[b].trip_id = m.trip_id
                    /\ rows[a].stop_id = m.zoo_stop_id /\ In(m.zoo_stop_id, ZooIds)
                    /\ rows[b].stop_id = m.toompark_stop_id
                    /\ In(m.toompark_stop_id, ToomparkIds)
                    /\ rows[a].departure_time = m.zoo_departure
                    /\ rows[b].arrival_time = m.toompark_arrival
                    /\ rows[b].stop_sequence.n > rows[a].stop_sequence.n
                    /\ m.intermediate_stops =
                           rows[b].stop_sequence.n - rows[a].stop_sequence.n - 1

\* a sample emitted from a table that lists the destination row before the origin
\* row and also holds a destination row that precedes the origin in sequence
C2_Witness ==
    /\ Matched
    /\ Len(results.val) = 1
    /\ Len(stop_times.rows) = 3
    /\ stop_times.rows[1].stop_id = "p1" /\ stop_times.rows[1].stop_sequence.n = 1
    /\ stop_times.rows[2].stop_id = "p1" /\ stop_times.rows[2].stop_sequence.n = 3
    /\ stop_times.rows[3].stop_id = "z1" /\ stop_times.rows[3].stop_sequence.n = 2
    /\ results.val[1].intermediate_stops = 0

-----------------------------------------------------------------------------
(* SpecEst: compute_lateness_probability applied to bounded corpora *)

Sample(dep, arr) ==
    [trip_id |-> "t1", zoo_stop_id |-> "z1", zoo_departure |-> dep,
     toompark_stop_id |-> "p1", toompark_arrival |-> arr,
     time_diff_minutes |-> 0, intermediate_stops |-> 0]

\* departures around the walk to the stop, arrivals around the deadline less the walk
Samples ==
    {Sample(d, a) : d \in {Clock(8, 10, 0), Clock(8, 30, 0)},
                    a \in {Clock(8, 23, 0), Clock(9, 1, 0), Clock(9, 1, 1)}}

\* 08:00:00, 08:05:00, 08:08:00, 08:30:00
LeaveChoices == {28800, 29100, 29280, 30600}

EstConfigs == {MainConfig,
               [walk_to_bus |-> 0, walk_from_bus |-> 0, meeting_time_sec |-> 9 * 3600 + 60]}

InitEst ==
    /\ pc = "ready"
    /\ all_durations \in Tables(Samples, MaxCorpus)
    /\ leave_times \in Tables(LeaveChoices, MaxLeave)
    /\ config \in EstConfigs
    /\ probabilities = Ok(<<>>)
    /\ seconds = 0
    /\ hhmm = <<>>
    /\ stop_times = Missing
    /\ window = <<0, 0>>
    /\ variant = "none"
    /\ results = Ok(<<>>)
    /\ data_root = <<>>
    /\ day = 0
    /\ trips_durations_by_day = <<>>
    /\ failed_days = <<>>
    /\ exception = "none"

Estimate ==
    /\ pc = "ready"
    /\ probabilities' = compute_lateness_probability(all_durations, leave_times,
                            config.meeting_time_sec, config.walk_to_bus, config.walk_from_bus)
    /\ pc' = "estimated"
    /\ UNCHANGED <<clockVars, matchVars, collectVars, all_durations, config, leave_times>>

NextEst == Estimate

SpecEst == InitEst /\ [][NextEst]_vars

\* the samples of the corpus a traveller leaving home at t can still board
ReachableAt(t) ==
    {s \in DOMAIN all_durations :
        SecondsOf(all_durations[s].zoo_departure) >= t + config.walk_to_bus}

\* the samples of the corpus that reach the office after the deadline
LateSamples ==
    {s \in DOMAIN all_durations :
        SecondsOf(all_durations[s].toompark_arrival) + config.walk_from_bus
            > config.meeting_time_sec}

Estimated ==
    /\ pc = "estimated"
    /\ probabilities.exc = "none"
    /\ Len(probabilities.val) = Len(leave_times)

\* p <= q for two probabilities
AtMost(p, q) == p.num * q.den <= q.num * p.den

\* C6: for a candidate time with at least one reachable sample the estimate is
\* exactly (reachable samples arriving at the office strictly after the deadline)
\* / (reachable samples); a departure at the traveller's arrival at the stop is
\* reachable, an arrival at the deadline is not late.
C6_LatenessEstimate ==
    pc = "estimated" =>
        /\ Estimated
        /\ \A k \in DOMAIN leave_times :
            LET reachable == ReachableAt(leave_times[k])
                p == probabilities.val[k]
            IN  reachable # {} =>
                    /\ p.den > 0
                    /\ p.num * Cardinality(reachable)
                           = Cardinality(reachable \cap LateSamples) * p.den

\* one trip 08:10:00 -> 08:23:00, walks 300 s / 240 s, deadline 09:05:00,
\* leaving at 08:00:00: probability 0.0
C6_Witness ==
    /\ Estimated
    /\ all_durations = <<Sample(Clock(8, 10, 0), Clock(8, 23, 0))>>
    /\ leave_times = <<28800>>
    /\ config = MainConfig
    /\ probabilities.val = <<[num |-> 0, den |-> 1]>>

\* C7: for a candidate time with no reachable sample (an empty corpus included)
\* the estimate is exactly 1.0, and the call neither divides by zero nor raises.
C7_EmptyReachable ==
    pc = "estimated" =>
        /\ Estimated
        /\ \A k \in DOMAIN leave_times :
            ReachableAt(leave_times[k]) = {} => probabilities.val[k] = One

\* an empty corpus, and a trip at 08:10:00 missed by leaving at 08:08:00
C7_Witness ==
    /\ Estimated
    /\ \/ all_durations = <<>> /\ leave_times = <<28800, 29280>>
       \/ /\ all_durations = <<Sample(Clock(8, 10, 0), Clock(8, 23, 0))>>
          /\ leave_times = <<29280>>
          /\ config = MainConfig
    /\ \A k \in DOMAIN leave_times : probabilities.val[k] = One

\* C8: for candidate times t1 <= t2 that each have a reachable sample, the
\* estimate for t2 is not greater than the estimate for t1.
C8_NonIncreasing ==
    Estimated =>
        \A j, k \in DOMAIN leave_times :
            (/\ leave_times[j] <= leave_times[k]
             /\ ReachableAt(leave_times[j]) # {}
             /\ ReachableAt(leave_times[k]) # {})
            => AtMost(probabilities.val[k], probabilities.val[j])

\* no sample departs at or after a late sample and is itself on time
LatenessOrdered ==
    \A s, u \in DOMAIN all_durations :
        (/\ s \in LateSamples
         /\ SecondsOf(all_durations[s].zoo_departure)
                <= SecondsOf(all_durations[u].zoo_departure))
        => u \in LateSamples

\* C8 as amended: over a corpus in which no sample that departs at or after a
\* late sample is on time, for candidate times t1 <= t2 that each have a
\* reachable sample the estimate for t2 is not less than the estimate for t1.
C8_NonDecreasing ==
    (Estimated /\ LatenessOrdered) =>
        \A j, k \in DOMAIN leave_times :
            (/\ leave_times[j] <= leave_times[k]
             /\ ReachableAt(leave_times[j]) # {}
             /\ ReachableAt(leave_times[k]) # {})
            => AtMost(probabilities.val[j], probabilities.val[k])

\* leaving at 08:00:00 both trips can be boarded and one is late; leaving at
\* 08:08:00 only the late one is left
C8_Witness ==
    /\ Estimated
    /\ LatenessOrdered
    /\ all_durations = <<Sample(Clock(8, 10, 0), Clock(8, 23, 0)),
                         Sample(Clock(8, 30, 0), Clock(9, 1, 1))>>
    /\ leave_times = <<28800, 29280>>
    /\ config = MainConfig
    /\ probabilities.val = <<[num |-> 1, den |-> 2], One>>

-----------------------------------------------------------------------------
(* Spec: main() over a bounded data root *)

TripsTable(line1, line2) ==
    File(<<[trip_id |-> "t1", trip_long_name |-> line1],
           [trip_id |-> "t2", trip_long_name |-> line2]>>)

StopsTable ==
    File(<<[stop_id |-> "z1", stop_name |-> "Zoo"],
           [stop_id |-> "p1", stop_name |-> "Toompark"],
           [stop_id |-> "x", stop_name |-> "Kristiine"]>>)

\* both trips run Zoo -> Toompark inside the window; t2 arrives too late for the meeting
GoodStopTimes ==
    File(<<StopTimeRow("t1", "z1", Clock(8, 10, 0), Num(1)),
           StopTimeRow("t2", "z1", Clock(8, 50, 0), Num(1)),
           StopTimeRow("t1", "p1", Clock(8, 23, 0), Num(3)),
           StopTimeRow("t2", "p1", Clock(9, 3, 0), Num(2))>>)

Snapshot(trips, stops, times) ==
    [isdir |-> TRUE, trips |-> trips, stops |-> stops, stop_times |-> times]

DayA == Snapshot(TripsTable(TargetLine, "Kopli - Vana-Lõuna"), StopsTable, GoodStopTimes)
DayB == Snapshot(TripsTable("Kopli - Vana-Lõuna", TargetLine), StopsTable, GoodStopTimes)
\* near misses of the line's name: another separator, a trailing blank
DayNoMatch == Snapshot(TripsTable("Väike-Õismäe / Äigrumäe", "Väike-Õismäe - Äigrumäe "),
                       StopsTable, GoodStopTimes)
DayNoTrips == Snapshot(Missing, StopsTable, GoodStopTimes)
DayNoStops == Snapshot(TripsTable(TargetLine, TargetLine), Missing, GoodStopTimes)
DayNoStopTimes == Snapshot(TripsTable(TargetLine, TargetLine), StopsTable, Missing)
DayBadSequence ==
    Snapshot(TripsTable(TargetLine, TargetLine), StopsTable,
             File(<<StopTimeRow("t1", "z1", Clock(8, 10, 0), Num(1)),
                    StopTimeRow("t1", "p1", Clock(8, 23, 0), NotNum)>>))
DayBadClock ==
    Snapshot(TripsTable(TargetLine, TargetLine), StopsTable,
             File(<<StopTimeRow("t1", "z1", <<Num(8), Num(10)>>, Num(1)),
                    StopTimeRow("t1", "p1", Clock(8, 23, 0), Num(2))>>))
DayNoColumn ==
    Snapshot(TripsTable(TargetLine, TargetLine), StopsTable,
             File(<<[trip_id |-> "t1", stop_id |-> "z1", arrival_time |-> Clock(8, 10, 0),
                     departure_time |-> Clock(8, 10, 0)]>>))
NotADirectory == [isdir |-> FALSE, trips |-> Missing, stops |-> Missing, stop_times |-> Missing]

\* what an entry of the data root holds, by the label the state keeps for it
Entries == {"DayA", "DayB", "DayNoMatch", "DayNoTrips", "DayNoStops", "DayNoStopTimes",
            "DayBadSequence", "DayBadClock", "DayNoColumn", "NotADirectory"}

Entry(label) ==
    CASE label = "DayA" -> DayA
      [] label = "DayB" -> DayB
      [] label = "DayNoMatch" -> DayNoMatch
      [] label = "DayNoTrips" -> DayNoTrips
      [] label = "DayNoStops" -> DayNoStops
      [] label = "DayNoStopTimes" -> DayNoStopTimes
      [] label = "DayBadSequence" -> DayBadSequence
      [] label = "DayBadClock" -> DayBadClock
      [] label = "DayNoColumn" -> DayNoColumn
      [] label = "NotADirectory" -> NotADirectory

\* the settings a run is started with: main.py's, and ones with a negative walk
Configs == {MainConfig,
            [MainConfig EXCEPT !.walk_to_bus = -300],
            [MainConfig EXCEPT !.walk_from_bus = -240]}

\* list(range(7*3600 + 30*60, 9*3600 + 5*60, 5*60))
MainLeaveTimes == [k \in 1..19 |-> 7 * 3600 + 30 * 60 + (k - 1) * 5 * 60]

Init ==
    /\ pc = "collect"
    /\ data_root \in UNION {[names -> Entries] : names \in SUBSET (1..MaxDays)}
    /\ day = 0
    /\ all_durations = <<>>
    /\ trips_durations_by_day = <<>>
    /\ failed_days = <<>>
    /\ exception = "none"
    /\ config \in Configs
    /\ leave_times = <<>>
    /\ probabilities = Ok(<<>>)
    /\ seconds = 0
    /\ hhmm = <<>>
    /\ stop_times = Missing
    /\ window = <<0, 0>>
    /\ variant = "none"
    /\ results = Ok(<<>>)

Listing == SortedNames(DOMAIN data_root)

\* if not os.path.isdir(day_path): continue
SkipEntry ==
    /\ pc = "collect"
    /\ day < Len(Listing)
    /\ ~Entry(data_root[Listing[day + 1]]).isdir
    /\ day' = day + 1
    /\ UNCHANGED <<pc, clockVars, matchVars, data_root, all_durations, trips_durations_by_day,
                   failed_days, exception, config, leave_times, probabilities>>

\* one pass of the loop for a day folder: the try block and its except clause
ProcessDay ==
    /\ pc = "collect"
    /\ day < Len(Listing)
    /\ Entry(data_root[Listing[day + 1]]).isdir
    /\ LET folder == Listing[day + 1]
           filtered_trips == DayTrips(Entry(data_root[folder]))
       IN  IF filtered_trips.exc = "none"
           THEN /\ trips_durations_by_day' =
                       [f \in DOMAIN trips_durations_by_day \cup {folder} |->
                           IF f = folder THEN filtered_trips.val
                           ELSE trips_durations_by_day[f]]
                /\ all_durations' = Extended(all_durations, filtered_trips.val)
                /\ day' = day + 1
                /\ UNCHANGED <<pc, failed_days, exception>>
           ELSE IF Caught(filtered_trips.exc)
           THEN /\ failed_days' = Append(failed_days, <<folder, filtered_trips.exc>>)
                /\ day' = day + 1
                /\ UNCHANGED <<pc, all_durations, trips_durations_by_day, exception>>
           ELSE /\ exception' = filtered_trips.exc
                /\ pc' = "crashed"
                /\ UNCHANGED <<day, all_durations, trips_durations_by_day, failed_days>>
    /\ UNCHANGED <<clockVars, matchVars, data_root, config, leave_times, probabilities>>

\* main() after collect_all_travel_times has returned
EstimateMain ==
    /\ pc = "collect"
    /\ day = Len(Listing)
    /\ leave_times' = MainLeaveTimes
    /\ probabilities' = compute_lateness_probability(all_durations, MainLeaveTimes,
                            config.meeting_time_sec, config.walk_to_bus, config.walk_from_bus)
    /\ pc' = "done"
    /\ UNCHANGED <<clockVars, matchVars, collectVars, all_durations, config>>

Next == SkipEntry \/ ProcessDay \/ EstimateMain

Spec == Init /\ [][Next]_vars

\* a negative walking duration
ConfigInvalid == config.walk_to_bus < 0 \/ config.walk_from_bus < 0

\* the folders the loop has passed, in the order it took them
Passed == SubSeq(Listing, 1, day)

IsDay(folder) == Entry(data_root[folder]).isdir

\* a day folder whose only defect is that stop_times.txt is absent
LacksStopTimes(folder) ==
    /\ IsDay(folder)
    /\ ~Entry(data_root[folder]).stop_times.exists
    /\ filter_trip_ids(Entry(data_root[folder]).trips).exc = "none"
    /\ extract_stop_ids(Entry(data_root[folder]).stops).exc = "none"

\* a day folder with one of its three tables absent
LacksASource(folder) ==
    /\ IsDay(folder)
    /\ \/ ~Entry(data_root[folder]).trips.exists
       \/ ~Entry(data_root[folder]).stops.exists
       \/ ~Entry(data_root[folder]).stop_times.exists

Reported(folder) == \E r \in DOMAIN failed_days : failed_days[r][1] = folder

\* C3: a day folder without stop_times.txt does not stop the loop, at whatever
\* place of the listing it stands: it is reported and adds nothing, and the
\* corpus is the concatenation of what the other folders passed so far yield on
\* their own, each recorded under its own name.
C3_MissingSourceTolerated ==
    LET yield(f) == DayTrips(Entry(data_root[f]))
        own(k) == IF IsDay(Passed[k]) /\ yield(Passed[k]).exc = "none"
                  THEN yield(Passed[k]).val
                  ELSE <<>>
    IN  /\ exception # "FileNotFoundError"
        /\ pc = "crashed" => ~LacksStopTimes(Listing[day + 1])
        /\ all_durations = Concat([k \in 1..day |-> own(k)])
        /\ \A k \in 1..day :
            /\ LacksStopTimes(Passed[k]) =>
                   /\ Passed[k] \notin DOMAIN trips_durations_by_day
                   /\ Reported(Passed[k])
            /\ (IsDay(Passed[k]) /\ yield(Passed[k]).exc = "none") =>
                   /\ Passed[k] \in DOMAIN trips_durations_by_day
                   /\ trips_durations_by_day[Passed[k]] = yield(Passed[k]).val

\* three snapshots, the middle one without stop_times.txt: the two others have
\* contributed their samples and the run has finished
C3_Witness ==
    /\ pc = "done"
    /\ DOMAIN data_root = {1, 2, 3}
    /\ data_root[1] = "DayA" /\ data_root[2] = "DayNoStopTimes" /\ data_root[3] = "DayB"
    /\ failed_days = <<<<2, "FileNotFoundError">>>>
    /\ Len(all_durations) = 2
    /\ all_durations[1].trip_id = "t1" /\ all_durations[2].trip_id = "t2"

\* C4: a malformed row (a missing field, a stop_sequence that is no integer, a
\* time that is not three integers) never leaves collect_all_travel_times: the
\* folder is skipped and the loop goes on.
C4_MalformedTolerated == ~ConfigInvalid => (pc # "crashed" /\ exception = "none")

\* C5: a day folder with any of its three tables absent is reported as failed
\* and gets no entry in the breakdown.
C5_MissingSourceFails ==
    \A k \in 1..day :
        (~ConfigInvalid /\ LacksASource(Passed[k])) =>
            /\ Passed[k] \notin DOMAIN trips_durations_by_day
            /\ Reported(Passed[k])

\* C9: every sample recorded for a snapshot carries a trip_id of the target line
\* in that snapshot's own trip table, and every sample of the corpus is recorded
\* for some snapshot.
C9_LineFilter ==
    /\ \A f \in DOMAIN trips_durations_by_day :
        \A k \in DOMAIN trips_durations_by_day[f] :
            In(trips_durations_by_day[f][k].trip_id,
               filter_trip_ids(Entry(data_root[f]).trips).val)
    /\ \A s \in DOMAIN all_durations :
        \E f \in DOMAIN trips_durations_by_day :
            In(all_durations[s], trips_durations_by_day[f])

\* two snapshots with the same stop times, the line being t1 in the first and
\* t2 in the second: each keeps its own line's trip only
C9_Witness ==
    /\ pc = "done"
    /\ DOMAIN data_root = {1, 2}
    /\ data_root[1] = "DayA" /\ data_root[2] = "DayB"
    /\ Len(trips_durations_by_day[1]) = 1 /\ trips_durations_by_day[1][1].trip_id = "t1"
    /\ Len(trips_durations_by_day[2]) = 1 /\ trips_durations_by_day[2][1].trip_id = "t2"

\* C10: under an invalid configuration the run halts before the loop takes its
\* first folder and before any probability is computed.
C10_EagerConfigCheck ==
    ConfigInvalid =>
        /\ pc = "collect"
        /\ \A k \in 1..day : ~IsDay(Passed[k])

-----------------------------------------------------------------------------
(* SpecClock: sec_to_hhmm applied to the seconds of two service days *)

InitClock ==
    /\ pc = "ready"
    /\ seconds \in 0..(MaxHour * 3600 + 3599)
    /\ hhmm = <<>>
    /\ stop_times = Missing
    /\ window = <<0, 0>>
    /\ variant = "none"
    /\ results = Ok(<<>>)
    /\ data_root = <<>>
    /\ day = 0
    /\ all_durations = <<>>
    /\ trips_durations_by_day = <<>>
    /\ failed_days = <<>>
    /\ exception = "none"
    /\ config = MainConfig
    /\ leave_times = <<>>
    /\ probabilities = Ok(<<>>)

Format ==
    /\ pc = "ready"
    /\ hhmm' = sec_to_hhmm(seconds)
    /\ pc' = "formatted"
    /\ UNCHANGED <<seconds, matchVars, collectVars, all_durations, config, leave_times,
                   probabilities>>

NextClock == Format

SpecClock == InitClock /\ [][NextClock]_vars

\* C11: for 0 <= h <= MaxHour, 0 <= m <= 59 and 0 <= s <= 59 the text for
\* h*3600 + m*60 + s is the two digits of h, a colon and the two digits of m:
\* the seconds are dropped.
C11_ClockFormat ==
    pc = "formatted" =>
        \A h \in 0..MaxHour :
            (h * 3600 <= seconds /\ seconds < (h + 1) * 3600) =>
                \A m \in 0..59 :
                    (h * 3600 + m * 60 <= seconds /\ seconds <= h * 3600 + m * 60 + 59) =>
                        hhmm = <<Digit[(h \div 10) + 1], Digit[(h % 10) + 1], ":",
                                 Digit[(m \div 10) + 1], Digit[(m % 10) + 1]>>

\* 09:05:59 is shown as 09:05
C11_Witness ==
    /\ pc = "formatted"
    /\ seconds = 9 * 3600 + 5 * 60 + 59
    /\ hhmm = <<"0", "9", ":", "0", "5">>

-----------------------------------------------------------------------------
(* The visits the matcher chooses, against the order of the rows *)

\* the rows of the table that belong to a trip and name one of the stops
VisitsOf(trip_id, stop_ids) ==
    {a \in DOMAIN stop_times.rows :
        /\ stop_times.rows[a].trip_id = trip_id
        /\ In(stop_times.rows[a].stop_id, stop_ids)}

SeqOf(a) == stop_times.rows[a].stop_sequence.n

\* stop_sequence identifies a visit within its trip, as the feed promises
SequencesDistinct ==
    \A a, b \in DOMAIN stop_times.rows :
        (a # b /\ stop_times.rows[a].trip_id = stop_times.rows[b].trip_id)
            => SeqOf(a) # SeqOf(b)

\* every clock string of the table parses
ClocksParse ==
    \A a \in DOMAIN stop_times.rows :
        /\ ParsesAsClock(stop_times.rows[a].departure_time)
        /\ ParsesAsClock(stop_times.rows[a].arrival_time)

\* the visit of lowest stop_sequence in a non-empty set of rows
Lowest(visits) == CHOOSE a \in visits : \A b \in visits : SeqOf(a) <= SeqOf(b)

\* C12: whatever the order of a trip's rows in the table, the origin of its
\* sample is the trip's origin-stop visit of lowest stop_sequence.
C12_OriginLowest ==
    (Matched /\ SequencesDistinct /\ ClocksParse) =>
        \A k \in DOMAIN results.val :
            LET m == results.val[k]
                a == Lowest(VisitsOf(m.trip_id, ZooIds))
            IN  /\ m.zoo_stop_id = stop_times.rows[a].stop_id
                /\ m.zoo_departure = stop_times.rows[a].departure_time
                /\ \E b \in VisitsOf(m.trip_id, ToomparkIds) :
                    /\ SeqOf(b) > SeqOf(a)
                    /\ m.intermediate_stops = SeqOf(b) - SeqOf(a) - 1

\* C13: whatever the order of a trip's rows in the table, the destination of its
\* sample is the destination-stop visit of lowest stop_sequence among those
\* after the sample's origin, and intermediate_stops is counted from it.
C13_DestinationNearest ==
    (Matched /\ SequencesDistinct /\ ClocksParse) =>
        \A k \in DOMAIN results.val :
            LET m == results.val[k]
            IN  \E a \in VisitsOf(m.trip_id, ZooIds) :
                    /\ m.zoo_stop_id = stop_times.rows[a].stop_id
                    /\ m.zoo_departure = stop_times.rows[a].departure_time
                    /\ LET after == {b \in VisitsOf(m.trip_id, ToomparkIds) :
                                        SeqOf(b) > SeqOf(a)}
                       IN  /\ after # {}
                           /\ m.toompark_stop_id = stop_times.rows[Lowest(after)].stop_id
                           /\ m.toompark_arrival
                                  = stop_times.rows[Lowest(after)].arrival_time
                           /\ m.intermediate_stops = SeqOf(Lowest(after)) - SeqOf(a) - 1

-----------------------------------------------------------------------------
(* The candidates of one call, each on its own *)

\* the call made for the k-th candidate alone
Alone(k) ==
    compute_lateness_probability(all_durations, <<leave_times[k]>>,
        config.meeting_time_sec, config.walk_to_bus, config.walk_from_bus)

C14_PerCandidate ==
    pc = "estimated" =>
        /\ Estimated
        /\ \A k \in DOMAIN leave_times :
            /\ Alone(k).exc = "none"
            /\ probabilities.val[k] = Alone(k).val[1]
            /\ 0 <= probabilities.val[k].num
            /\ probabilities.val[k].num <= probabilities.val[k].den

\* C14: the call returns one probability per candidate, in the candidates'
\* order and within [0,1]; the k-th is what the call returns for the k-th
\* candidate alone, whatever the other candidates and their order; and the call
\* leaves the corpus as it was.
C14_Independent ==
    /\ []C14_PerCandidate
    /\ [][all_durations' = all_durations]_vars

\* the later candidate first: only the late trip is left at 08:08:00, and both
\* trips are still counted for 08:00:00 after it
C14_Witness ==
    /\ Estimated
    /\ all_durations = <<Sample(Clock(8, 10, 0), Clock(8, 23, 0)),
                         Sample(Clock(8, 30, 0), Clock(9, 1, 1))>>
    /\ leave_times = <<29280, 28800>>
    /\ config = MainConfig
    /\ probabilities.val = <<One, [num |-> 1, den |-> 2]>>

-----------------------------------------------------------------------------
(* The two structures of the corpus, pass by pass *)

\* the folders recorded in the breakdown, in the order the loop took them
Recorded == SelectSeq(Passed, LAMBDA f : f \in DOMAIN trips_durations_by_day)

C15_Concatenated ==
    /\ \A j, k \in 1..day : j < k => Passed[j] < Passed[k]
    /\ DOMAIN trips_durations_by_day \subseteq {Passed[k] : k \in 1..day}
    /\ all_durations
           = Concat([k \in 1..Len(Recorded) |-> trips_durations_by_day[Recorded[k]]])

\* a pass over an entry that is no directory, or over a folder that fails
PassWithoutRecord ==
    \/ pc' = "crashed"
    \/ /\ day' = day + 1
       /\ \/ ~IsDay(Listing[day + 1])
          \/ failed_days' # failed_days

\* C15: after every pass of the loop, taken in ascending order of the folder
\* names, the flattened corpus is the concatenation, in that order, of the lists
\* recorded in the breakdown; a folder that fails and an entry that is no
\* directory change neither.
C15_CorpusConsistent ==
    /\ []C15_Concatenated
    /\ [][PassWithoutRecord =>
             /\ all_durations' = all_durations
             /\ trips_durations_by_day' = trips_durations_by_day]_vars

\* a plain file between two days: the corpus is the second day's sample after
\* the first day's
C15_Witness ==
    /\ pc = "done"
    /\ DOMAIN data_root = {1, 2, 3}
    /\ data_root[1] = "DayB" /\ data_root[2] = "NotADirectory" /\ data_root[3] = "DayA"
    /\ DOMAIN trips_durations_by_day = {1, 3}
    /\ Len(all_durations) = 2
    /\ all_durations[1].trip_id = "t2" /\ all_durations[2].trip_id = "t1"

====
